---- MODULE Spec2Model ----
(***************************************************************************)
(* kovetskiy/short: a short-term-memory trainer.  The program shows a      *)
(* sequence of random numbers, lets the user retype it, scores the answer  *)
(* by longest common prefix and appends a record of the run to a JSON log. *)
(*                                                                         *)
(* Two variants of the program are modelled: the plain-text one            *)
(* (src/main.go, mode "plain") and the full-screen termbox one             *)
(* (src/unnamed/part_000, mode "termbox").                                 *)
(***************************************************************************)
EXTENDS Integers, Sequences, FiniteSets, TLC

VARIABLES
    mode,           \* "plain" (src/main.go) or "termbox" (src/unnamed/part_000)
    dry,            \* --dry flag (plain variant only)
    testsCount,     \* -n
    numbersCount,   \* -c
    minNumber,      \* -i
    maxNumber,      \* -a
    pc,             \* position of the single control flow
    i,              \* loop variable of main's trial loop / of the generator loop
    results,        \* main: results []Result
    validNumbers,   \* runTest: validNumbers ; generateRandomNumbers: numbers
    userNumbers,    \* runTest: userNumbers
    text,           \* readText: text ; getNumbersFromStdin: scanner.Text()
    eof,            \* plain variant: scanner.Scan() returned false
    score,          \* compare: score
    timeStart,      \* runTest: timeStart
    timeFinish,     \* runTest: timeFinish
    sumScore,       \* main: sumScore
    avgDuration,    \* main: avgDuration, a rational [num, den]; den = 0 is NaN
    now,            \* the wall clock read by time.Now()
    file,           \* content of the log file, a sequence of JSON lexemes
    fileExists,     \* whether the log file exists
    database,       \* saveResults: database, as handed to json.Marshal
    history,        \* history variable: records of the runs that wrote the file
    file0,          \* history variable: file content when the run started
    exists0,        \* history variable: fileExists when the run started
    opened,         \* history variable: os.OpenFile has been called in this run
    writes,         \* history variable: number of WriteAt calls of this run
    quit,           \* history variable: the quit chord was pressed
    draws,          \* history variable: number of draws from the random source
    tShown,         \* history variable: clock when the sequence was displayed
    tReady,         \* history variable: clock when readiness was confirmed
    tAnswered       \* history variable: clock when the answer was confirmed

vars == <<mode, dry, testsCount, numbersCount, minNumber, maxNumber, pc, i,
          results, validNumbers, userNumbers, text, eof, score, timeStart,
          timeFinish, sumScore, avgDuration, now, file, fileExists, database,
          history, file0, exists0, opened, writes, quit, draws, tShown,
          tReady, tAnswered>>

(***************************************************************************)
(* Bounds of the model.                                                    *)
(***************************************************************************)
MaxLen == 3        \* longest sequence handed to compare
MaxVal == 1        \* numbers handed to compare are in 0..MaxVal
MaxArg == 2        \* generator: min in -1..MaxArg, max in -1..MaxArg+1
MaxCount == 2      \* generator: count in 0..MaxCount
MaxDraws == 4      \* generator: draws from the random source per call
MaxLine == 4       \* longest typed line handed to the input collector

Min(a, b) == IF a < b THEN a ELSE b

Last(s) == s[Len(s)]

SeqsUpTo(S, n) == UNION {[1..k -> S] : k \in 0..n}

(***************************************************************************)
(* Scorer: compare(validNumbers, inputNumbers).                            *)
(***************************************************************************)
RECURSIVE compareLoop(_, _, _, _, _)
compareLoopNoBreak(valid, input, length, index, sc) ==
    IF index < length
    THEN IF valid[index + 1] = input[index + 1]
         THEN compareLoop(valid, input, length, index + 1, sc + 1)
         ELSE compareLoop(valid, input, length, index + 1, sc)
    ELSE sc

\* for index := 0; index < length; index++ { if == { score++ } else { break } }
compareLoop(valid, input, length, index, sc) ==
    IF index < length
    THEN IF valid[index + 1] = input[index + 1]
         THEN compareLoop(valid, input, length, index + 1, sc + 1)
         ELSE sc
    ELSE sc

compare(valid, input) ==
    LET length == IF Len(valid) < Len(input) THEN Len(valid) ELSE Len(input)
    IN  compareLoop(valid, input, length, 0, 0)

(***************************************************************************)
(* Input collector: strings.Split(text, " ") and strconv.Atoi.  A text is  *)
(* a sequence of one-character strings.                                    *)
(***************************************************************************)
Digits == <<"0", "1", "2", "3", "4", "5", "6", "7", "8", "9">>

IsDigit(c) == \E k \in 1..10 : Digits[k] = c

DigitVal(c) == (CHOOSE k \in 1..10 : Digits[k] = c) - 1

RECURSIVE Split(_)
\* strings.Split(s, " "): cut at EVERY space; n spaces give n + 1 pieces,
\* empty ones included, so "" gives one empty piece.
Split(s) ==
    IF \A k \in 1..Len(s) : s[k] # " "
    THEN <<s>>
    ELSE LET p == CHOOSE k \in 1..Len(s) :
                      s[k] = " " /\ \A j \in 1..(k - 1) : s[j] # " "
         IN  <<SubSeq(s, 1, p - 1)>> \o Split(SubSeq(s, p + 1, Len(s)))

RECURSIVE DecimalValue(_)
DecimalValue(ds) ==
    IF ds = <<>> THEN 0
    ELSE 10 * DecimalValue(SubSeq(ds, 1, Len(ds) - 1)) + DigitVal(Last(ds))

\* number, _ := strconv.Atoi(piece): an optional sign and at least one digit,
\* nothing else; on a syntax error the number is 0 and the error is dropped.
Atoi(piece) ==
    LET signed == piece # <<>> /\ piece[1] \in {"+", "-"}
        ds     == IF signed THEN Tail(piece) ELSE piece
    IN  IF ds # <<>> /\ \A k \in 1..Len(ds) : IsDigit(ds[k])
        THEN IF signed /\ piece[1] = "-"
             THEN 0 - DecimalValue(ds)
             ELSE DecimalValue(ds)
        ELSE 0

\* pieces := strings.Split(text, " "); one Atoi per piece, appended in order
getNumbers(t) ==
    LET pieces == Split(t)
    IN  [k \in 1..Len(pieces) |-> Atoi(pieces[k])]

\* plain variant: nothing is appended when scanner.Scan() fails
getNumbersFromStdin(t, atEOF) == IF atEOF THEN <<>> ELSE getNumbers(t)

(***************************************************************************)
(* Random sequence generator: generateRandomNumbers(min, max, count).      *)
(***************************************************************************)
genStepNoRetry(min, idx, numbers, number) ==
    IF number < min
    THEN [i |-> idx + 1, numbers |-> numbers]
    ELSE [i |-> idx + 1, numbers |-> Append(numbers, number)]

\* One iteration of the loop for the draw `number`, the loop's i++ included:
\* if number < min { i--; continue }; numbers = append(numbers, number)
genStep(min, idx, numbers, number) ==
    IF number < min
    THEN [i |-> (idx - 1) + 1, numbers |-> numbers]
    ELSE [i |-> idx + 1, numbers |-> Append(numbers, number)]

\* rand.Int(rand.Reader, big.NewInt(max)): uniform in [0, max); it panics
\* when max <= 0.
RandInt(max) == 0..(max - 1)

RECURSIVE generateRandomNumbers(_, _, _, _, _)
\* Every sequence the loop can return from (idx, numbers).  A rejected draw
\* leaves the loop where it was, so only accepted draws lead on.
generateRandomNumbers(min, max, count, idx, numbers) ==
    IF ~(idx < count)
    THEN {numbers}
    ELSE UNION {LET r == genStep(min, idx, numbers, number)
                IN  generateRandomNumbers(min, max, count, r.i, r.numbers) :
                    number \in {n \in RandInt(max) : ~(n < min)}}

(***************************************************************************)
(* Initial states.  Start(r) puts every variable at the value r gives it;  *)
(* Default is the state of a process that has parsed its arguments with    *)
(* the usage text's defaults replaced by the smallest values of the model. *)
(***************************************************************************)
Rat(n, d) == [num |-> n, den |-> d]

Default ==
    [mode |-> "plain", dry |-> FALSE, testsCount |-> 0, numbersCount |-> 0,
     minNumber |-> 0, maxNumber |-> 1, pc |-> "loop", i |-> 0,
     results |-> <<>>, validNumbers |-> <<>>, userNumbers |-> <<>>,
     text |-> <<>>, eof |-> FALSE, score |-> 0, timeStart |-> 0,
     timeFinish |-> 0, sumScore |-> 0, avgDuration |-> Rat(0, 1), now |-> 0,
     file |-> <<>>, fileExists |-> FALSE, database |-> <<>>,
     history |-> <<>>, file0 |-> <<>>, exists0 |-> FALSE, opened |-> FALSE,
     writes |-> 0, quit |-> FALSE, draws |-> 0, tShown |-> 0, tReady |-> 0,
     tAnswered |-> 0]

Start(r) ==
    /\ mode = r.mode
    /\ dry = r.dry
    /\ testsCount = r.testsCount
    /\ numbersCount = r.numbersCount
    /\ minNumber = r.minNumber
    /\ maxNumber = r.maxNumber
    /\ pc = r.pc
    /\ i = r.i
    /\ results = r.results
    /\ validNumbers = r.validNumbers
    /\ userNumbers = r.userNumbers
    /\ text = r.text
    /\ eof = r.eof
    /\ score = r.score
    /\ timeStart = r.timeStart
    /\ timeFinish = r.timeFinish
    /\ sumScore = r.sumScore
    /\ avgDuration = r.avgDuration
    /\ now = r.now
    /\ file = r.file
    /\ fileExists = r.fileExists
    /\ database = r.database
    /\ history = r.history
    /\ file0 = r.file0
    /\ exists0 = r.exists0
    /\ opened = r.opened
    /\ writes = r.writes
    /\ quit = r.quit
    /\ draws = r.draws
    /\ tShown = r.tShown
    /\ tReady = r.tReady
    /\ tAnswered = r.tAnswered

argVars == <<mode, dry, testsCount, numbersCount, minNumber, maxNumber>>

trialVars == <<validNumbers, userNumbers, text, eof, score, timeStart,
               timeFinish>>

fileVars == <<file, fileExists, database, history, file0, exists0, opened,
              writes>>

clockVars == <<now, tShown, tReady, tAnswered>>

(***************************************************************************)
(* The scorer on its own: compare applied to any two sequences.            *)
(***************************************************************************)
InitCompare ==
    \E a \in SeqsUpTo(0..MaxVal, MaxLen), b \in SeqsUpTo(0..MaxVal, MaxLen) :
        Start([Default EXCEPT !.pc = "compare", !.validNumbers = a,
                              !.userNumbers = b])

CompareCall ==
    /\ pc = "compare"
    /\ score' = compare(validNumbers, userNumbers)
    /\ pc' = "compared"
    /\ UNCHANGED <<argVars, i, results, validNumbers, userNumbers, text, eof,
                   timeStart, timeFinish, sumScore, avgDuration, fileVars,
                   clockVars, quit, draws>>

SpecCompare == InitCompare /\ [][CompareCall]_vars

(***************************************************************************)
(* The generator on its own, one draw per step.                            *)
(***************************************************************************)
InitGen ==
    \E mn \in (0 - 1)..MaxArg, mx \in (0 - 1)..(MaxArg + 1), c \in 0..MaxCount :
        Start([Default EXCEPT !.pc = "gen", !.minNumber = mn,
                              !.maxNumber = mx, !.numbersCount = c])

GenDraw ==
    /\ pc = "gen"
    /\ i < numbersCount
    /\ maxNumber > 0
    /\ draws < MaxDraws
    /\ \E number \in RandInt(maxNumber) :
          LET r == genStep(minNumber, i, validNumbers, number)
          IN  /\ i' = r.i
              /\ validNumbers' = r.numbers
    /\ draws' = draws + 1
    /\ UNCHANGED <<argVars, pc, results, userNumbers, text, eof, score,
                   timeStart, timeFinish, sumScore, avgDuration, fileVars,
                   clockVars, quit>>

GenPanic ==
    /\ pc = "gen"
    /\ i < numbersCount
    /\ maxNumber <= 0
    /\ pc' = "panic"
    /\ UNCHANGED <<argVars, i, results, trialVars, sumScore, avgDuration,
                   fileVars, clockVars, quit, draws>>

GenReturn ==
    /\ pc = "gen"
    /\ ~(i < numbersCount)
    /\ pc' = "generated"
    /\ UNCHANGED <<argVars, i, results, trialVars, sumScore, avgDuration,
                   fileVars, clockVars, quit, draws>>

SpecGen == InitGen /\ [][GenDraw \/ GenPanic \/ GenReturn]_vars

(***************************************************************************)
(* The input collector on its own: any typed line, or end of input.        *)
(***************************************************************************)
LineAlphabet == {"1", "2", " ", "a", "-"}

InitInput ==
    \E t \in SeqsUpTo(LineAlphabet, MaxLine), m \in {"plain", "termbox"} :
        Start([Default EXCEPT !.pc = "input", !.text = t, !.mode = m])

InputParse ==
    /\ pc = "input"
    /\ userNumbers' = IF mode = "plain" THEN getNumbersFromStdin(text, FALSE)
                                        ELSE getNumbers(text)
    /\ pc' = "parsed"
    /\ UNCHANGED <<argVars, i, results, validNumbers, text, eof, score,
                   timeStart, timeFinish, sumScore, avgDuration, fileVars,
                   clockVars, quit, draws>>

InputEOF ==
    /\ pc = "input"
    /\ mode = "plain"
    /\ text = <<>>
    /\ eof' = TRUE
    /\ userNumbers' = getNumbersFromStdin(text, TRUE)
    /\ pc' = "parsed"
    /\ UNCHANGED <<argVars, i, results, validNumbers, text, score,
                   timeStart, timeFinish, sumScore, avgDuration, fileVars,
                   clockVars, quit, draws>>

SpecInput == InitInput /\ [][InputParse \/ InputEOF]_vars

(***************************************************************************)
(* The log file.  Its content is a sequence of JSON lexemes [k, n, d]:     *)
(* punctuation "[", "]", "{", "}", ","; an object key with its colon       *)
(* ("date:", ...); a number literal "num" with value n / d; a string       *)
(* literal "str" (n names the string); the literal "null"; and "ws", one   *)
(* character of insignificant whitespace.                                  *)
(***************************************************************************)
Lex(k) == [k |-> k, n |-> 0, d |-> 1]

Num(n) == [k |-> "num", n |-> n, d |-> 1]

Flt(q) == [k |-> "num", n |-> q.num, d |-> q.den]

Str(n) == [k |-> "str", n |-> n, d |-> 1]

Keys == {"date:", "avg_duration:", "total_score:", "results:", "score:",
         "duration:", "count:"}

\* type Result struct { Score int; Duration float64; Count int }
Result(sc, duration, count) ==
    [score |-> sc, duration |-> duration, count |-> count]

\* type DatabaseItem struct { Date string; AvgDuration float64;
\*                            TotalScore int; Results []Result }
\* isNil tells a nil Results slice (encoded as null) from an empty one.
DatabaseItem(date, avg, total, res) ==
    [date |-> date, avg |-> avg, total |-> total, results |-> res,
     isNil |-> FALSE]

ZeroResult == Result(0, Rat(0, 1), 0)

\* the zero value of DatabaseItem; the empty string is the string -1
ZeroItem ==
    [date |-> 0 - 1, avg |-> Rat(0, 1), total |-> 0, results |-> <<>>,
     isNil |-> TRUE]

RECURSIVE Join(_)
\* the encodings in `encs`, separated by commas
Join(encs) ==
    IF encs = <<>> THEN <<>>
    ELSE IF Len(encs) = 1 THEN encs[1]
    ELSE encs[1] \o <<Lex(",")>> \o Join(Tail(encs))

MarshalResult(r) ==
    <<Lex("{"), Lex("score:"), Num(r.score), Lex(","),
      Lex("duration:"), Flt(r.duration), Lex(","),
      Lex("count:"), Num(r.count), Lex("}")>>

MarshalResults(rs) ==
    <<Lex("[")>> \o Join([k \in 1..Len(rs) |-> MarshalResult(rs[k])])
                 \o <<Lex("]")>>

MarshalItem(it) ==
    <<Lex("{"), Lex("date:"), Str(it.date), Lex(","),
      Lex("avg_duration:"), Flt(it.avg), Lex(","),
      Lex("total_score:"), Num(it.total), Lex(","), Lex("results:")>>
    \o (IF it.isNil THEN <<Lex("null")>> ELSE MarshalResults(it.results))
    \o <<Lex("}")>>

\* json.Marshal fails on a float that is NaN or infinite (den = 0)
MarshalFails(db) ==
    \E k \in 1..Len(db) :
        \/ db[k].avg.den = 0
        \/ \E j \in 1..Len(db[k].results) : db[k].results[j].duration.den = 0

\* json.Marshal(database), for a database it does not fail on
Marshal(db) ==
    <<Lex("[")>> \o Join([k \in 1..Len(db) |-> MarshalItem(db[k])])
                 \o <<Lex("]")>>

RECURSIVE After(_, _)
RECURSIVE AfterElem(_, _)
RECURSIVE AfterMember(_, _)
\* after the value that ends just before t[e] inside an array: the index
\* after the closing bracket, or 0
AfterElem(t, e) ==
    IF e = 0 \/ e > Len(t) THEN 0
    ELSE IF t[e].k = "]" THEN e + 1
    ELSE IF t[e].k = "," THEN AfterElem(t, After(t, e + 1))
    ELSE 0

\* a member of an object starts at t[p]: a key, then a value
AfterMember(t, e) ==
    IF e = 0 \/ e > Len(t) THEN 0
    ELSE IF t[e].k = "}" THEN e + 1
    ELSE IF t[e].k = "," /\ e + 1 <= Len(t) /\ t[e + 1].k \in Keys
         THEN AfterMember(t, After(t, e + 2))
    ELSE 0

\* The index just after the JSON value that starts at t[p], or 0 if no
\* well-formed value starts there (the scanner of json.checkValid).
After(t, p) ==
    IF p = 0 \/ p > Len(t) THEN 0
    ELSE IF t[p].k \in {"num", "str", "null"} THEN p + 1
    ELSE IF t[p].k = "["
         THEN IF p + 1 <= Len(t) /\ t[p + 1].k = "]" THEN p + 2
              ELSE AfterElem(t, After(t, p + 1))
    ELSE IF t[p].k = "{"
         THEN IF p + 1 <= Len(t) /\ t[p + 1].k = "}" THEN p + 2
              ELSE IF p + 1 <= Len(t) /\ t[p + 1].k \in Keys
                   THEN AfterMember(t, After(t, p + 2))
                   ELSE 0
    ELSE 0

\* whitespace is insignificant between lexemes
StripWs(c) == SelectSeq(c, LAMBDA l : l.k # "ws")

\* json.checkValid: exactly one value, nothing after it
Valid(t) == t # <<>> /\ After(t, 1) = Len(t) + 1

IsInt(l) == l.k = "num" /\ l.d = 1

\* a decoding in progress: the value so far and whether a type error was met
Acc(val, err) == [val |-> val, err |-> err]

\* what a value v of the wrong type does to a decoding: null is skipped,
\* anything else is a type error; the field keeps its value
Mismatch(acc, v) == Acc(acc.val, acc.err \/ v.k # "null")

\* one member, key v, of a Result object
ResultField(key, v, acc) ==
    IF key = "score:"
    THEN IF IsInt(v) THEN Acc([acc.val EXCEPT !.score = v.n], acc.err)
         ELSE Mismatch(acc, v)
    ELSE IF key = "duration:"
    THEN IF v.k = "num"
         THEN Acc([acc.val EXCEPT !.duration = Rat(v.n, v.d)], acc.err)
         ELSE Mismatch(acc, v)
    ELSE IF key = "count:"
    THEN IF IsInt(v) THEN Acc([acc.val EXCEPT !.count = v.n], acc.err)
         ELSE Mismatch(acc, v)
    ELSE acc

RECURSIVE ResultMembers(_, _, _)
\* the member at t[p] has been decoded into acc and its value ends before
\* t[e]: go on after a comma, stop at the closing brace
ResultMembersFrom(t, e, acc) ==
    IF t[e].k = "," THEN ResultMembers(t, e + 1, acc) ELSE acc

\* the members of a Result object from the key t[p] on
ResultMembers(t, p, acc) ==
    ResultMembersFrom(t, After(t, p + 1), ResultField(t[p].k, t[p + 1], acc))

\* Decode the value at t[p] into a Result: an object member by member, null
\* as nothing, anything else as a type error that leaves the zero value.
DecodeResult(t, p) ==
    IF t[p].k = "{"
    THEN IF t[p + 1].k = "}" THEN Acc(ZeroResult, FALSE)
         ELSE ResultMembers(t, p + 1, Acc(ZeroResult, FALSE))
    ELSE Acc(ZeroResult, t[p].k # "null")

\* an element decoded as r is appended to the slice decoded so far
AppendDecoded(acc, r) == Acc(Append(acc.val, r.val), acc.err \/ r.err)

RECURSIVE DecodeResults(_, _, _)
DecodeResultsFrom(t, e, acc) ==
    IF t[e].k = "," THEN DecodeResults(t, e + 1, acc) ELSE acc

\* the elements of a non-empty results array from the element at t[p] on
DecodeResults(t, p, acc) ==
    DecodeResultsFrom(t, After(t, p), AppendDecoded(acc, DecodeResult(t, p)))

\* the results slice of an item becomes the decoded array
SetResults(acc, rs) ==
    Acc([acc.val EXCEPT !.results = rs.val, !.isNil = FALSE],
        acc.err \/ rs.err)

\* one member of a DatabaseItem object: the key t[p] and the value at t[p+1]
ItemField(t, p, acc) ==
    IF t[p].k = "date:"
    THEN IF t[p + 1].k = "str"
         THEN Acc([acc.val EXCEPT !.date = t[p + 1].n], acc.err)
         ELSE Mismatch(acc, t[p + 1])
    ELSE IF t[p].k = "avg_duration:"
    THEN IF t[p + 1].k = "num"
         THEN Acc([acc.val EXCEPT !.avg = Rat(t[p + 1].n, t[p + 1].d)], acc.err)
         ELSE Mismatch(acc, t[p + 1])
    ELSE IF t[p].k = "total_score:"
    THEN IF IsInt(t[p + 1])
         THEN Acc([acc.val EXCEPT !.total = t[p + 1].n], acc.err)
         ELSE Mismatch(acc, t[p + 1])
    ELSE IF t[p].k = "results:"
    THEN IF t[p + 1].k = "["
         THEN IF t[p + 2].k = "]" THEN SetResults(acc, Acc(<<>>, FALSE))
              ELSE SetResults(acc, DecodeResults(t, p + 2, Acc(<<>>, FALSE)))
         ELSE Mismatch(acc, t[p + 1])
    ELSE acc

RECURSIVE ItemMembers(_, _, _)
ItemMembersFrom(t, e, acc) ==
    IF t[e].k = "," THEN ItemMembers(t, e + 1, acc) ELSE acc

\* the members of a DatabaseItem object from the key t[p] on
ItemMembers(t, p, acc) ==
    ItemMembersFrom(t, After(t, p + 1), ItemField(t, p, acc))

DecodeItem(t, p) ==
    IF t[p].k = "{"
    THEN IF t[p + 1].k = "}" THEN Acc(ZeroItem, FALSE)
         ELSE ItemMembers(t, p + 1, Acc(ZeroItem, FALSE))
    ELSE Acc(ZeroItem, t[p].k # "null")

RECURSIVE DecodeItems(_, _, _)
DecodeItemsFrom(t, e, acc) ==
    IF t[e].k = "," THEN DecodeItems(t, e + 1, acc) ELSE acc

\* the elements of a non-empty top-level array from the element at t[p] on
DecodeItems(t, p, acc) ==
    DecodeItemsFrom(t, After(t, p), AppendDecoded(acc, DecodeItem(t, p)))

\* what json.Unmarshal leaves and returns after a decoding
Decoded(acc) == [db |-> acc.val, err |-> IF acc.err THEN "type" ELSE "none"]

\* Decoding of valid content t into a []DatabaseItem that starts empty: an
\* array element by element, null as nothing, any other value as a type
\* error that stores nothing.
Decode(t) ==
    IF t[1].k = "["
    THEN IF t[2].k = "]" THEN Decoded(Acc(<<>>, FALSE))
         ELSE Decoded(DecodeItems(t, 2, Acc(<<>>, FALSE)))
    ELSE [db |-> <<>>, err |-> IF t[1].k = "null" THEN "none" ELSE "type"]

UnmarshalKeepsElement(content) ==
    LET t == StripWs(content)
    IN  IF ~Valid(t)
        THEN [db |-> IF t = <<>> THEN <<>> ELSE <<ZeroItem>>, err |-> "syntax"]
        ELSE Decode(t)

\* json.Unmarshal(content, &database) with database = []DatabaseItem{}:
\* [db |-> database afterwards, err |-> "none", "syntax" or "type"].
\* The content is validated as a whole first; invalid content leaves the
\* database untouched.  Valid content is then decoded as far as it fits:
\* a value of the wrong type is skipped and reported, the rest is stored.
Unmarshal(content) ==
    LET t == StripWs(content)
    IN  IF ~Valid(t) THEN [db |-> <<>>, err |-> "syntax"] ELSE Decode(t)

Max(a, b) == IF a > b THEN a ELSE b

WriteAtEnd(old, content, off) == old \o content

\* fd.WriteAt(content, off) on a file holding `old`: the bytes from off on
\* are overwritten, the file grows if it has to, and it is never truncated.
WriteAt(old, content, off) ==
    [k \in 1..Max(Len(old), off + Len(content)) |->
        IF off < k /\ k <= off + Len(content) THEN content[k - off]
        ELSE old[k]]

(***************************************************************************)
(* saveResults(file, results, totalScore, avgDuration), entered at         *)
(* pc = "save" with the arguments in results, sumScore and avgDuration.    *)
(***************************************************************************)
\* the DatabaseItem appended by saveResults; Date is time.Now().String()
CurrentItem == DatabaseItem(now, avgDuration, sumScore, results)

\* database := []DatabaseItem{}; json.Unmarshal(content, &database);
\* database = append(database, DatabaseItem{...})
AppendedDatabase == Append(Unmarshal(file).db, CurrentItem)

\* os.OpenFile fails: panic(err) before anything is read or created
SaveOpenPanic ==
    /\ pc = "save"
    /\ opened' = TRUE
    /\ pc' = "panic_open"
    /\ UNCHANGED <<argVars, i, results, trialVars, sumScore, avgDuration,
                   clockVars, file, fileExists, database, history, file0,
                   exists0, writes, quit, draws>>

\* os.OpenFile succeeds (O_CREATE creates a missing file), ioutil.ReadAll
\* fails: panic(err)
SaveReadPanic ==
    /\ pc = "save"
    /\ opened' = TRUE
    /\ fileExists' = TRUE
    /\ pc' = "panic_read"
    /\ UNCHANGED <<argVars, i, results, trialVars, sumScore, avgDuration,
                   clockVars, file, database, history, file0, exists0,
                   writes, quit, draws>>

\* json.Marshal fails (avgDuration is NaN when there is no result):
\* panic(err) before the write
SaveMarshalPanic ==
    /\ pc = "save"
    /\ MarshalFails(AppendedDatabase)
    /\ opened' = TRUE
    /\ fileExists' = TRUE
    /\ database' = AppendedDatabase
    /\ pc' = "panic_marshal"
    /\ UNCHANGED <<argVars, i, results, trialVars, sumScore, avgDuration,
                   clockVars, file, history, file0, exists0, writes, quit,
                   draws>>

\* the whole of saveResults when nothing fails: open, read, decode, append,
\* encode, fd.WriteAt(content, 0)
SaveWrite ==
    /\ pc = "save"
    /\ ~MarshalFails(AppendedDatabase)
    /\ opened' = TRUE
    /\ fileExists' = TRUE
    /\ database' = AppendedDatabase
    /\ file' = WriteAt(file, Marshal(AppendedDatabase), 0)
    /\ writes' = writes + 1
    /\ history' = Append(history, CurrentItem)
    /\ pc' = "done"
    /\ UNCHANGED <<argVars, i, results, trialVars, sumScore, avgDuration,
                   clockVars, file0, exists0, quit, draws>>

SaveResults == SaveOpenPanic \/ SaveReadPanic \/ SaveMarshalPanic \/ SaveWrite

(***************************************************************************)
(* The sums main computes after the loop.                                  *)
(***************************************************************************)
RECURSIVE SumScoresButFirst(_)
SumScoresButFirst(rs) ==
    IF Len(rs) <= 1 THEN 0 ELSE Last(rs).score + SumScoresButFirst(SubSeq(rs, 1, Len(rs) - 1))

RECURSIVE SumScores(_)
\* for _, result := range results { sumScore += result.Score }
SumScores(rs) ==
    IF rs = <<>> THEN 0
    ELSE SumScores(SubSeq(rs, 1, Len(rs) - 1)) + Last(rs).score

RECURSIVE SumDurations(_)
\* for _, result := range results { sumDuration += result.Duration }
SumDurations(rs) ==
    IF rs = <<>> THEN 0
    ELSE SumDurations(SubSeq(rs, 1, Len(rs) - 1)) + Last(rs).duration.num

(***************************************************************************)
(* saveResults on its own, against log files of every shape: the encoding  *)
(* of up to MaxPrior records, the same with one lexeme deleted, with       *)
(* whitespace inserted, or with one literal replaced by a literal of the   *)
(* other type, and a few contents that are valid JSON but no array of      *)
(* objects.                                                                *)
(***************************************************************************)
MaxPrior == 2      \* records in the log before the run
PadLen == 30       \* a long run of whitespace

SampleItem(k) == DatabaseItem(k, Rat(k, 1), k, <<Result(k, Rat(k, 1), 1)>>)

SampleDatabase(k) == [j \in 1..k |-> SampleItem(j)]

Delete(c, p) == SubSeq(c, 1, p - 1) \o SubSeq(c, p + 1, Len(c))

Pad(c, p, w) ==
    SubSeq(c, 1, p - 1) \o [j \in 1..w |-> Lex("ws")] \o SubSeq(c, p, Len(c))

Retype(c, p) ==
    [c EXCEPT ![p] = IF c[p].k = "num" THEN Str(0) ELSE Num(0)]

Edits(c) ==
    {c} \cup {Delete(c, p) : p \in 1..Len(c)}
        \cup {Pad(c, p, w) : p \in 1..(Len(c) + 1), w \in {1, PadLen}}
        \cup {Retype(c, p) : p \in {q \in 1..Len(c) : c[q].k \in {"num", "str"}}}

SampleFiles ==
    UNION {Edits(Marshal(SampleDatabase(k))) : k \in 0..MaxPrior}
        \cup {<<>>, <<Num(5)>>, <<Lex("{"), Lex("}")>>,
              <<Lex("["), Num(5), Lex("]")>>}

\* the results of a run of no trial, and of runs of one trial
SampleResults == {<<>>, <<Result(1, Rat(1, 1), 1)>>, <<Result(0, Rat(2, 1), 1)>>}

InitStore ==
    \E f \in SampleFiles, x \in BOOLEAN, rs \in SampleResults :
        /\ x \/ f = <<>>
        /\ Start([Default EXCEPT !.pc = "save", !.file = f, !.file0 = f,
                                 !.fileExists = x, !.exists0 = x,
                                 !.results = rs, !.testsCount = Len(rs),
                                 !.i = Len(rs), !.sumScore = SumScores(rs),
                                 !.avgDuration = Rat(SumDurations(rs), Len(rs)),
                                 !.now = MaxPrior + 1])

SpecStore == InitStore /\ [][SaveResults]_vars

(***************************************************************************)
(* The log over several runs, from a missing or empty file that only this  *)
(* program writes.  A run is reduced to its call of saveResults.           *)
(***************************************************************************)
MaxRuns == 2       \* runs after the first

InitLog ==
    \E x \in BOOLEAN, rs \in SampleResults :
        Start([Default EXCEPT !.pc = "save", !.fileExists = x, !.exists0 = x,
                              !.results = rs, !.testsCount = Len(rs),
                              !.i = Len(rs), !.sumScore = SumScores(rs),
                              !.avgDuration = Rat(SumDurations(rs), Len(rs))])

\* the next process: main up to its call of saveResults
NextRun ==
    /\ pc \in {"done", "panic_open", "panic_read", "panic_marshal"}
    /\ now < MaxRuns
    /\ now' = now + 1
    /\ \E rs \in SampleResults :
          /\ results' = rs
          /\ testsCount' = Len(rs)
          /\ i' = Len(rs)
          /\ sumScore' = SumScores(rs)
          /\ avgDuration' = Rat(SumDurations(rs), Len(rs))
    /\ file0' = file
    /\ exists0' = fileExists
    /\ opened' = FALSE
    /\ writes' = 0
    /\ database' = <<>>
    /\ pc' = "save"
    /\ UNCHANGED <<mode, dry, numbersCount, minNumber, maxNumber, trialVars,
                   file, fileExists, history, quit, draws, tShown, tReady,
                   tAnswered>>

SpecLog == InitLog /\ [][SaveResults \/ NextRun]_vars


(***************************************************************************)
(* A whole run of the program: main, runTest, wait, readText.  A step is   *)
(* what the process does between two blocking reads of the terminal.       *)
(***************************************************************************)
MaxTests == 2      \* -n is in -1..MaxTests
MaxText == 3       \* longest answer typed in a trial
MaxDelay == 1      \* the user takes 1..MaxDelay clock ticks before Enter

\* the characters of an answer: readText keeps digits and spaces only
AnswerAlphabet == {"1", "2", " "}

\* -c, -i, -a: two numbers out of {1, 2}, or a range rand.Int refuses
SampleRanges ==
    {[count |-> 2, min |-> 1, max |-> 3], [count |-> 1, min |-> 0, max |-> 0]}

\* a log holding one earlier run, or none
InitialLogs == {<<>>, Marshal(SampleDatabase(1))}

Init ==
    \E m \in {"plain", "termbox"}, dr \in BOOLEAN, n \in (0 - 1)..MaxTests,
       a \in SampleRanges, f \in InitialLogs, x \in BOOLEAN :
        /\ dr => m = "plain"
        /\ x \/ f = <<>>
        /\ Start([Default EXCEPT !.mode = m, !.dry = dr, !.testsCount = n,
                                 !.numbersCount = a.count, !.minNumber = a.min,
                                 !.maxNumber = a.max, !.pc = "loop",
                                 !.file = f, !.file0 = f, !.fileExists = x,
                                 !.exists0 = x, !.now = 2])

LoopCondOffByOne(idx, n) == idx < n - 1

\* for i := 0; i < testsCount; i++
LoopCond(idx, n) == idx < n

\* rand.Int panics on its first call when max <= 0
RandPanics == numbersCount > 0 /\ maxNumber <= 0

FinishAfterAnswerOnly(m) == FALSE

\* the termbox variant reads timeFinish right after wait() returns, before
\* the answer is read; the plain variant reads it after the answer
FinishAtReady(m) == m = "termbox"

QuitFallsThrough == "read"

\* termbox.Close(); os.Exit(0)
QuitExit == "exit"

\* score := compare(validNumbers, userNumbers);
\* duration := timeFinish.Sub(timeStart).Seconds();
\* return Result{score, duration, numbersCount}
runTestResult(answer) ==
    Result(compare(validNumbers, answer), Rat(timeFinish - timeStart, 1),
           numbersCount)

\* runTest returns: its locals are gone
LeaveRunTest ==
    /\ validNumbers' = <<>>
    /\ userNumbers' = <<>>
    /\ text' = <<>>
    /\ eof' = FALSE
    /\ score' = 0

\* runTest up to its first blocking read: the numbers are generated,
\* timeStart is read, the sequence is displayed
StartTrial ==
    /\ pc = "loop"
    /\ LoopCond(i, testsCount)
    /\ ~RandPanics
    /\ validNumbers' \in
          generateRandomNumbers(minNumber, maxNumber, numbersCount, 0, <<>>)
    /\ timeStart' = now
    /\ tShown' = now
    /\ userNumbers' = <<>>
    /\ text' = <<>>
    /\ eof' = FALSE
    /\ pc' = "wait"
    /\ UNCHANGED <<argVars, i, results, score, timeFinish, sumScore,
                   avgDuration, now, tReady, tAnswered, fileVars, quit, draws>>

StartTrialPanic ==
    /\ pc = "loop"
    /\ LoopCond(i, testsCount)
    /\ RandPanics
    /\ pc' = "panic_rand"
    /\ UNCHANGED <<argVars, i, results, trialVars, sumScore, avgDuration,
                   clockVars, fileVars, quit, draws>>

\* wait() returns: Enter (termbox), a line of input (plain); the display is
\* cleared
WaitEnter ==
    /\ pc = "wait"
    /\ \E delay \in 1..MaxDelay : now' = now + delay
    /\ tReady' = now'
    /\ timeFinish' = IF FinishAtReady(mode) THEN now' ELSE timeFinish
    /\ pc' = "read"
    /\ UNCHANGED <<argVars, i, results, validNumbers, userNumbers, text, eof,
                   score, timeStart, sumScore, avgDuration, tShown, tAnswered,
                   fileVars, quit, draws>>

\* wait(): KeyCtrlC, KeyCtrlZ
WaitQuit ==
    /\ pc = "wait"
    /\ mode = "termbox"
    /\ quit' = TRUE
    /\ pc' = QuitExit
    /\ UNCHANGED <<argVars, i, results, trialVars, sumScore, avgDuration,
                   clockVars, fileVars, draws>>

\* readText: a digit or KeySpace is appended to text
TypeChar ==
    /\ pc = "read"
    /\ mode = "termbox"
    /\ Len(text) < MaxText
    /\ \E ch \in AnswerAlphabet : text' = Append(text, ch)
    /\ UNCHANGED <<argVars, pc, i, results, validNumbers, userNumbers, eof,
                   score, timeStart, timeFinish, sumScore, avgDuration,
                   clockVars, fileVars, quit, draws>>

\* readText: KeyBackspace2 drops the last character, if there is one
Backspace ==
    /\ pc = "read"
    /\ mode = "termbox"
    /\ text' = IF Len(text) = 0 THEN text ELSE SubSeq(text, 1, Len(text) - 1)
    /\ UNCHANGED <<argVars, pc, i, results, validNumbers, userNumbers, eof,
                   score, timeStart, timeFinish, sumScore, avgDuration,
                   clockVars, fileVars, quit, draws>>

\* readText: KeyCtrlC, KeyCtrlZ
ReadQuit ==
    /\ pc = "read"
    /\ mode = "termbox"
    /\ quit' = TRUE
    /\ pc' = QuitExit
    /\ UNCHANGED <<argVars, i, results, trialVars, sumScore, avgDuration,
                   clockVars, fileVars, draws>>

\* readText: KeyEnter ends the answer; the rest of runTest and of the loop
\* body follows: getNumbers, compare, the Result, results = append(...)
ReadEnter ==
    /\ pc = "read"
    /\ mode = "termbox"
    /\ \E delay \in 1..MaxDelay : now' = now + delay
    /\ tAnswered' = now'
    /\ results' = Append(results, runTestResult(getNumbers(text)))
    /\ LeaveRunTest
    /\ i' = i + 1
    /\ pc' = "loop"
    /\ UNCHANGED <<argVars, timeStart, timeFinish, sumScore, avgDuration,
                   tShown, tReady, fileVars, quit, draws>>

\* plain variant: getNumbersFromStdin reads a line (or meets the end of the
\* input), timeFinish is read, the answer is scored; without --dry the result
\* is appended at once
ReadLine ==
    /\ pc = "read"
    /\ mode = "plain"
    /\ \E delay \in 1..MaxDelay : now' = now + delay
    /\ tAnswered' = now'
    /\ timeFinish' = now'
    /\ \E line \in SeqsUpTo(AnswerAlphabet, MaxText), atEOF \in BOOLEAN :
          /\ atEOF => line = <<>>
          /\ IF dry
             THEN /\ score' = compare(validNumbers,
                                      getNumbersFromStdin(line, atEOF))
                  /\ validNumbers' = <<>>
                  /\ pc' = "drywait"
                  /\ UNCHANGED <<results, i, userNumbers, text, eof>>
             ELSE /\ results' = Append(results,
                        [runTestResult(getNumbersFromStdin(line, atEOF))
                            EXCEPT !.duration = Rat(timeFinish' - timeStart, 1)])
                  /\ LeaveRunTest
                  /\ i' = i + 1
                  /\ pc' = "loop"
    /\ UNCHANGED <<argVars, timeStart, sumScore, avgDuration, tShown, tReady,
                   fileVars, quit, draws>>

\* --dry: score and duration are printed, wait() returns, then
\* results = append(results, result)
DryWait ==
    /\ pc = "drywait"
    /\ results' = Append(results, Result(score, Rat(timeFinish - timeStart, 1),
                                         numbersCount))
    /\ score' = 0
    /\ i' = i + 1
    /\ pc' = "loop"
    /\ UNCHANGED <<argVars, validNumbers, userNumbers, text, eof, timeStart,
                   timeFinish, sumScore, avgDuration, clockVars, fileVars,
                   quit, draws>>

\* after the loop: the sums and the average; sumDuration / float64(0) is NaN
EndLoop ==
    /\ pc = "loop"
    /\ ~LoopCond(i, testsCount)
    /\ sumScore' = SumScores(results)
    /\ avgDuration' = Rat(SumDurations(results), Len(results))
    /\ pc' = "save"
    /\ UNCHANGED <<argVars, i, results, trialVars, clockVars, fileVars, quit,
                   draws>>

Next ==
    \/ StartTrial
    \/ StartTrialPanic
    \/ WaitEnter
    \/ WaitQuit
    \/ TypeChar
    \/ Backspace
    \/ ReadQuit
    \/ ReadEnter
    \/ ReadLine
    \/ DryWait
    \/ EndLoop
    \/ SaveResults

Spec == Init /\ [][Next]_vars

(***************************************************************************)
(* Properties.                                                             *)
(***************************************************************************)

\* the largest k <= min(len a, len b) with a[j] = b[j] for every j <= k
LongestCommonPrefix(a, b) ==
    CHOOSE k \in 0..Min(Len(a), Len(b)) :
        /\ \A j \in 1..k : a[j] = b[j]
        /\ \A m \in (k + 1)..Min(Len(a), Len(b)) : \E j \in 1..m : a[j] # b[j]

\* C1 as stated: compare returns the length of the longest common prefix,
\* compare(A, A) = len(A), the result is 0 when a sequence is empty or the
\* first elements differ, and replacing any element AT or after the first
\* mismatching index, by any value, leaves the result unchanged.
C1_AnyChangeFromMismatchOn ==
    pc = "compared" =>
        /\ score = LongestCommonPrefix(validNumbers, userNumbers)
        /\ score < Min(Len(validNumbers), Len(userNumbers)) =>
              \A p \in (score + 1)..Len(userNumbers), v \in 0..MaxVal :
                  compare(validNumbers, [userNumbers EXCEPT ![p] = v]) = score

\* C1 (amended): compare returns the length of the longest common prefix;
\* compare(A, A) = len(A); the result is 0 when a sequence is empty or the
\* first elements differ; and the result does not change when an element
\* after the first mismatching index is replaced by any value, or the element
\* at it by a value that still differs from its counterpart.
C1_ComparePrefix ==
    pc = "compared" =>
        /\ score = LongestCommonPrefix(validNumbers, userNumbers)
        /\ compare(validNumbers, validNumbers) = Len(validNumbers)
        /\ compare(userNumbers, userNumbers) = Len(userNumbers)
        /\ (validNumbers = <<>> \/ userNumbers = <<>>
              \/ validNumbers[1] # userNumbers[1]) => score = 0
        /\ score < Min(Len(validNumbers), Len(userNumbers)) =>
              /\ \A p \in (score + 1)..Len(userNumbers), v \in 0..MaxVal :
                    (p > score + 1 \/ v # validNumbers[p]) =>
                        compare(validNumbers, [userNumbers EXCEPT ![p] = v])
                            = score
              /\ \A p \in (score + 1)..Len(validNumbers), v \in 0..MaxVal :
                    (p > score + 1 \/ v # userNumbers[p]) =>
                        compare([validNumbers EXCEPT ![p] = v], userNumbers)
                            = score

\* a mismatch after a matching start, followed by a position that matches
C1_Witness ==
    /\ pc = "compared"
    /\ score = 1
    /\ Len(validNumbers) = 3
    /\ Len(userNumbers) = 3
    /\ validNumbers[3] = userNumbers[3]

RunItem == DatabaseItem(now, avgDuration, sumScore, results)

RECURSIVE TotalOf(_)
\* the sum of the scores, from the first result on
TotalOf(rs) == IF rs = <<>> THEN 0 ELSE Head(rs).score + TotalOf(Tail(rs))

\* C4: the record a run writes holds one result per requested trial, the
\* results main collected in trial order, each with the run's count, and a
\* total_score that is the sum of their scores; the file's last record is it.
C4_RecordHoldsEveryTrial ==
    writes >= 1 =>
        /\ Len(Last(database).results) = testsCount
        /\ Last(database).results = results
        /\ \A k \in 1..Len(results) :
              /\ results[k].count = numbersCount
              /\ results[k].score \in 0..numbersCount
        /\ Last(database).total = TotalOf(Last(database).results)
        /\ Last(Unmarshal(file).db) = Last(database)

\* a written record of MaxTests trials with a score in it
C4_Witness ==
    /\ writes = 1
    /\ testsCount = MaxTests
    /\ Len(Last(database).results) = MaxTests
    /\ Last(database).results[1].score > 0
    /\ Last(database).total > Last(database).results[1].score

\* C5: a run writes the log at most once, only when every requested trial
\* is in results; until then the file is as it was when the run started;
\* after the quit chord the process is at os.Exit with the file never
\* opened and unchanged, and it takes no further step.
C5_WriteOnceQuitLeavesLog ==
    /\ writes <= 1
    /\ writes = 1 => (pc = "done" /\ i = testsCount /\ Len(results) = testsCount)
    /\ writes = 0 => file = file0
    /\ quit => /\ pc = "exit"
               /\ ~opened
               /\ writes = 0
               /\ file = file0
               /\ fileExists = exists0
               /\ ~ENABLED Next

\* the quit chord in the second trial, with a log that held a record
C5_Witness ==
    /\ quit
    /\ Len(results) = 1
    /\ pc = "exit"
    /\ file0 # <<>>

\* a trial has been presented to the user
TrialPresented == i > 0 \/ pc \in {"wait", "read", "drywait"}

\* C6 as stated: the log file is opened and read before the first trial is
\* presented, so a file-open or read error aborts before any trial.
C6_OpenedBeforeFirstTrial ==
    /\ TrialPresented => opened
    /\ pc \in {"panic_open", "panic_read"} => results = <<>>

\* C6 (amended): the log file is opened and read only in saveResults, after
\* the last trial has been scored; a file-open or read error therefore aborts
\* the process after the user has performed every requested trial, and the
\* run's results are lost (the file's content is unchanged).
C6_OpenedAfterLastTrial ==
    /\ opened => /\ ~LoopCond(i, testsCount)
                 /\ Len(results) = Max(testsCount, 0)
                 /\ pc \in {"done", "panic_open", "panic_read", "panic_marshal"}
    /\ pc \in {"panic_open", "panic_read"} =>
          /\ opened
          /\ Len(results) = Max(testsCount, 0)
          /\ file = file0
    /\ pc \in {"wait", "read", "drywait"} => ~opened

\* a file-open error after MaxTests trials
C6_Witness ==
    /\ pc = "panic_open"
    /\ testsCount = MaxTests
    /\ Len(results) = MaxTests

\* the last trial has been scored and recorded, and no later one has started
TrialRecorded == i > 0 /\ pc \in {"loop", "save", "done"}

\* C7 as stated: whenever parsing the existing content fails, for a syntax
\* error or for a value of the wrong type, the sequence the run encodes
\* holds exactly one record, the run's.
C7_AnyFailureEmptiesHistory ==
    (pc = "done" /\ Unmarshal(file0).err # "none") => database = <<RunItem>>

\* C7 (amended): when the existing content is not valid JSON (a syntax
\* error, an empty file included) or is a valid value other than an array,
\* the run goes on without an error and the sequence it encodes holds
\* exactly one record, the run's.  When the content is a valid array in
\* which a value has the wrong type, the decoded elements are kept (the
\* field of the wrong type zero) and the run's record is appended to them.
C7_SyntaxFailureEmptiesHistory ==
    pc = "done" =>
        /\ Unmarshal(file0).err = "syntax" => database = <<RunItem>>
        /\ (Unmarshal(file0).err = "type" /\ StripWs(file0)[1].k # "[") =>
              database = <<RunItem>>
        /\ (Unmarshal(file0).err = "type" /\ StripWs(file0)[1].k = "[") =>
              /\ Len(database) >= 2
              /\ Last(database) = RunItem
        /\ Marshal(database) = SubSeq(file, 1, Len(Marshal(database)))

\* a run that completed against a non-empty log with a syntax error
C7_Witness ==
    /\ pc = "done"
    /\ Len(file0) > 2
    /\ Unmarshal(file0).err = "syntax"
    /\ database = <<RunItem>>

\* the whitespace-separated tokens of a text: its maximal runs of non-spaces
Fields(t) == SelectSeq(Split(t), LAMBDA piece : piece # <<>>)

\* C8 as stated: for a typed answer (one with a token in it) the collector
\* returns the values of its whitespace-separated tokens in order, 0 for a
\* token that is no number.
C8_WhitespaceTokens ==
    (pc = "parsed" /\ ~eof /\ Fields(text) # <<>>) =>
        userNumbers = [k \in 1..Len(Fields(text)) |-> Atoi(Fields(text)[k])]

\* C9 as stated: in both variants timeStart is read when the sequence is
\* displayed and timeFinish when the answer is confirmed, and the recorded
\* duration is their difference.
C9_FinishAtAnswerBothModes ==
    TrialRecorded =>
        /\ timeStart = tShown
        /\ timeFinish = tAnswered
        /\ Last(results).duration = Rat(tAnswered - tShown, 1)

\* C9 (amended): in both variants timeStart is read when the sequence is
\* displayed and the recorded duration is timeFinish minus timeStart.  In
\* the plain variant timeFinish is read when the answer is confirmed, so the
\* duration covers memorisation and recall.  In the full-screen variant
\* timeFinish is read when readiness is confirmed, before the answer is
\* typed, so the duration covers the memorisation phase only.
C9_FinishPerMode ==
    TrialRecorded =>
        /\ timeStart = tShown
        /\ Last(results).duration = Rat(timeFinish - timeStart, 1)
        /\ tShown < tReady /\ tReady < tAnswered
        /\ mode = "plain" => timeFinish = tAnswered
        /\ mode = "termbox" => timeFinish = tReady

\* a recorded trial of the full-screen variant
C9_Witness ==
    /\ TrialRecorded
    /\ mode = "termbox"
    /\ Len(results) = MaxTests
    /\ tAnswered > tReady

\* C10: from a missing or empty file, the log is always exactly the encoding
\* of the records of the runs that wrote it, in run order, and parses to
\* them without an error; a write never makes the file shorter than the
\* content it overwrites.
C10_LogIsEncodingOfRuns ==
    /\ history = <<>> => file = <<>>
    /\ history # <<>> =>
          /\ file = Marshal(history)
          /\ Unmarshal(file) = [db |-> history, err |-> "none"]
    /\ pc = "done" => Len(file) >= Len(file0)

\* the log after three runs wrote it
C10_Witness ==
    /\ pc = "done"
    /\ Len(history) = MaxRuns + 1
    /\ Len(file) > Len(file0)
    /\ file0 # <<>>

====
